---- MODULE Spec2Model ----
(***************************************************************************)
(* Sales-Data-Dashboard: the three batch stages                            *)
(*   scripts/generate_dataset.py      (generator)                          *)
(*   scripts/data_cleaning.py         (cleaner)                            *)
(*   scripts/exploratory_analysis.py  (reporter)                           *)
(* chained by the two flat files data/sales_data.csv and                   *)
(* data/sales_data_cleaned.csv.                                            *)
(*                                                                         *)
(* Representation.                                                         *)
(*  - A CSV file is a sequence of rows; a row is a record of cells.        *)
(*  - The columns modelled are Order_ID, Order_Date, Ship_Date, Sales,     *)
(*    Quantity, Profit and the nine columns the cleaner derives.  The ten  *)
(*    other raw columns are carried through every stage untouched.         *)
(*  - A numeric cell is [k, n, d]: k = "num" is the exact rational n/d in  *)
(*    lowest terms, k = "nan" an empty cell (NaN), k = "inf" an infinity   *)
(*    of sign n, k = "bad" a cell holding non-numeric text.  Floating      *)
(*    point is modelled by exact rational arithmetic.                      *)
(*  - A date cell is [k, y, m, d]: the three fields of the text            *)
(*    YYYY-MM-DD ("date"), an empty cell ("nan") or unparseable text       *)
(*    ("bad").  A timestamp is a proleptic Gregorian day ordinal.          *)
(*  - A seeded random generator is a fixed sequence of outputs whose       *)
(*    values are chosen when first consumed.                               *)
(*                                                                         *)
(* Specifications: SpecGenerator (generator runs), SpecCleaner (cleaner    *)
(* runs on a sample of raw tables), SpecReporter (the summary on cleaned   *)
(* tables), SpecPipeline (the three stages run in any order on one         *)
(* directory), SpecOrderDate (generate_order_date on every offset).        *)
(***************************************************************************)
EXTENDS Integers, Sequences, FiniteSets, TLC

VARIABLES
    rawFile,        \* data/sales_data.csv: sequence of rows
    cleanedFile,    \* data/sales_data_cleaned.csv: sequence of rows
    cleanerExit,    \* outcome of the last cleaner run: "none", "ok", "error"
    cleanerRuns,    \* number of cleaner runs so far
    cleanerInput,   \* the table the last cleaner run loaded
    summary,        \* what the reporter's print_summary last computed
    genPc,          \* generator process: "idle" or "generating"
    records,        \* the list main() of the generator is building
    randomStream,   \* outputs of the `random` module after random.seed(42)
    randomPos,      \* how many of them this process has consumed
    npStream,       \* outputs of np.random after np.random.seed(42)
    npPos,          \* how many of them this process has consumed
    genRuns,        \* completed generator runs
    prevRawFile,    \* what the previous generator run wrote
    resampled,      \* order numbers of this run whose date was moved into Q4
    orderDateCall   \* the last call of generate_order_date: its draws and result

fileVars == <<rawFile, cleanedFile>>
cleanerVars == <<cleanerExit, cleanerRuns, cleanerInput>>
genVars == <<genPc, records, randomStream, randomPos, npStream, npPos, genRuns,
             prevRawFile, resampled, orderDateCall>>
vars == <<fileVars, cleanerVars, summary, genVars>>

-----------------------------------------------------------------------------
(* Bounds of the model *)

MaxRows == 3          \* rows of a cleaner / reporter input table
MaxCleanerRuns == 2   \* cleaner runs in one behaviour
MaxRecords == 2       \* records one generator run produces (NUM_RECORDS)
MaxGenRuns == 2       \* generator runs in one behaviour

-----------------------------------------------------------------------------
(* Exact rational arithmetic standing for float64 *)

Abs(x) == IF x < 0 THEN -x ELSE x

RECURSIVE GCD(_, _)
GCD(a, b) == IF b = 0 THEN a ELSE GCD(b, a % b)

Rat(n, d) ==
    LET s == IF d < 0 THEN -1 ELSE 1
        g == GCD(Abs(n), Abs(d))
    IN  [k |-> "num", n |-> (s * n) \div g, d |-> (s * d) \div g]

Int2Rat(i) == [k |-> "num", n |-> i, d |-> 1]
NaN == [k |-> "nan", n |-> 0, d |-> 1]
Inf(sign) == [k |-> "inf", n |-> sign, d |-> 1]
BadNum == [k |-> "bad", n |-> 0, d |-> 1]
Zero == Int2Rat(0)

IsNum(x) == x.k = "num"
IsNaN(x) == x.k = "nan"

Sign(x) == IF x.n > 0 THEN 1 ELSE IF x.n < 0 THEN -1 ELSE 0

\* numerators over the least common denominator, and products with the
\* common factors cancelled first, keep the intermediate integers small
Lcm(a, b) == (a \div GCD(a, b)) * b

FracMul(an, ad, bn, bd) ==
    LET g1 == GCD(Abs(an), bd)
        g2 == GCD(Abs(bn), ad)
        h1 == IF g1 = 0 THEN 1 ELSE g1
        h2 == IF g2 = 0 THEN 1 ELSE g2
    IN  Rat((an \div h1) * (bn \div h2), (ad \div h2) * (bd \div h1))

\* a + b, a - b, a * b on finite values; NaN propagates
RatAdd(a, b) ==
    IF IsNum(a) /\ IsNum(b)
    THEN LET l == Lcm(a.d, b.d)
         IN  Rat(a.n * (l \div a.d) + b.n * (l \div b.d), l)
    ELSE NaN
RatSub(a, b) ==
    IF IsNum(a) /\ IsNum(b)
    THEN LET l == Lcm(a.d, b.d)
         IN  Rat(a.n * (l \div a.d) - b.n * (l \div b.d), l)
    ELSE NaN
RatMul(a, b) ==
    IF IsNum(a) /\ IsNum(b) THEN FracMul(a.n, a.d, b.n, b.d)
    ELSE IF IsNaN(a) \/ IsNaN(b) THEN NaN
    ELSE IF Sign(a) * Sign(b) = 0 THEN NaN
    ELSE Inf(Sign(a) * Sign(b))

\* IEEE division as the element-wise "/" of two numeric columns computes it:
\* x/0 is +-inf, 0/0 is NaN, and no exception is raised
RatDiv(a, b) ==
    IF IsNaN(a) \/ IsNaN(b) THEN NaN
    ELSE IF IsNum(a) /\ IsNum(b) THEN
        IF b.n # 0 THEN FracMul(a.n, a.d, b.d, b.n)
        ELSE IF a.n = 0 THEN NaN ELSE Inf(Sign(a))
    ELSE IF IsNum(b) THEN Inf(Sign(a) * (IF b.n < 0 THEN -1 ELSE 1))
    ELSE IF IsNum(a) THEN Zero ELSE NaN

\* a < b; every comparison with NaN is false
RatLess(a, b) ==
    /\ ~IsNaN(a) /\ ~IsNaN(b)
    /\ IF IsNum(a) /\ IsNum(b) THEN RatSub(a, b).n < 0
       ELSE IF IsNum(a) THEN b.n > 0
       ELSE IF IsNum(b) THEN a.n < 0
       ELSE a.n < b.n

\* a != b as the element-wise "!=" computes it: NaN differs from everything
RatNe(a, b) == IsNaN(a) \/ IsNaN(b) \/ a # b

\* .round(2): round half to even at two decimals; NaN and inf stay
Round2(x) ==
    IF ~IsNum(x) THEN x
    ELSE LET g == GCD(100, x.d)
             num == (100 \div g) * x.n
             den == x.d \div g
             fl == num \div den
             rem == num - fl * den
             r == IF 2 * rem < den THEN fl
                  ELSE IF 2 * rem > den THEN fl + 1
                  ELSE IF fl % 2 = 0 THEN fl ELSE fl + 1
         IN  Rat(r, 100)

-----------------------------------------------------------------------------
(* Calendar *)

MonthNames == <<"January", "February", "March", "April", "May", "June", "July",
                "August", "September", "October", "November", "December">>
DayNames == <<"Monday", "Tuesday", "Wednesday", "Thursday", "Friday",
              "Saturday", "Sunday">>

IsLeap(y) == y % 4 = 0 /\ (y % 100 # 0 \/ y % 400 = 0)

DaysInMonth(y, m) ==
    IF m = 2 THEN (IF IsLeap(y) THEN 29 ELSE 28)
    ELSE IF m \in {4, 6, 9, 11} THEN 30 ELSE 31

DaysBeforeYear(y) ==
    (y - 1) * 365 + (y - 1) \div 4 - (y - 1) \div 100 + (y - 1) \div 400

RECURSIVE DaysBeforeMonth(_, _)
DaysBeforeMonth(y, m) ==
    IF m = 1 THEN 0 ELSE DaysBeforeMonth(y, m - 1) + DaysInMonth(y, m - 1)

\* year, month, day -> day ordinal (0001-01-01 is day 1)
Ymd2Ord(y, m, d) == DaysBeforeYear(y) + DaysBeforeMonth(y, m) + d

\* day ordinal -> year, month, day
OrdYear(n) ==
    LET guess == (n - 1) \div 366 + 1
    IN  CHOOSE y \in guess .. guess + 8 :
            DaysBeforeYear(y) < n /\ n <= DaysBeforeYear(y + 1)
OrdMonth(n) ==
    LET y == OrdYear(n)
        r == n - DaysBeforeYear(y)
    IN  CHOOSE m \in 1 .. 12 :
            DaysBeforeMonth(y, m) < r /\ r <= DaysBeforeMonth(y, m) + DaysInMonth(y, m)
OrdDay(n) ==
    LET y == OrdYear(n)
    IN  n - DaysBeforeYear(y) - DaysBeforeMonth(y, OrdMonth(n))

\* date cells
DateCell(y, m, d) == [k |-> "date", y |-> y, m |-> m, d |-> d]
NoDate == [k |-> "nan", y |-> 0, m |-> 0, d |-> 0]
BadDate == [k |-> "bad", y |-> 0, m |-> 0, d |-> 0]

\* strftime("%Y-%m-%d") / the CSV writer's rendering of a midnight timestamp
FormatDate(n) == DateCell(OrdYear(n), OrdMonth(n), OrdDay(n))

\* timestamps: "ts" with a day ordinal, "nat" (NaT), "err" (the parse raised)
Ts(n) == [k |-> "ts", ord |-> n]
NaT == [k |-> "nat", ord |-> 0]
ParseError == [k |-> "err", ord |-> 0]

\* pd.to_datetime on one cell: an empty cell is NaT, text that is no calendar
\* date raises
ToDatetime(c) ==
    IF c.k = "nan" THEN NaT
    ELSE IF c.k = "date" /\ c.y \in 1 .. 9999 /\ c.m \in 1 .. 12
            /\ c.d \in 1 .. DaysInMonth(c.y, c.m)
         THEN Ts(Ymd2Ord(c.y, c.m, c.d))
    ELSE ParseError

-----------------------------------------------------------------------------
(* Cells and columns *)

\* Order_ID cells: "ORD-<year>-<seq>" or an empty cell
OrderId(year, seq) == [k |-> "id", year |-> year, seq |-> seq]
NoId == [k |-> "nan", year |-> 0, seq |-> 0]

NoText == ""

\* DataFrame.isnull() on one cell of each kind
NumIsNull(x) == x.k = "nan"
TsIsNull(t) == t.k = "nat"
IdIsNull(i) == i.k = "nan"
TextIsNull(s) == s = NoText

RawColumns == {"Order_ID", "Order_Date", "Ship_Date", "Sales", "Quantity", "Profit"}

-----------------------------------------------------------------------------
(* Cleaner: scripts/data_cleaning.py *)

\* Series.quantile(q) with q = qn/qd: linear interpolation between the order
\* statistics of the non-missing values; NaN when there are none
RECURSIVE InsertSorted(_, _)
InsertSorted(s, x) ==
    IF s = <<>> THEN <<x>>
    ELSE IF RatLess(x, Head(s)) THEN <<x>> \o s
    ELSE <<Head(s)>> \o InsertSorted(Tail(s), x)

RECURSIVE SortedNonNull(_)
SortedNonNull(col) ==
    IF col = <<>> THEN <<>>
    ELSE IF NumIsNull(Head(col)) THEN SortedNonNull(Tail(col))
    ELSE InsertSorted(SortedNonNull(Tail(col)), Head(col))

Quantile(col, qn, qd) ==
    LET v == SortedNonNull(col)
        n == Len(v)
    IN  IF n = 0 THEN NaN
        ELSE LET lo == ((n - 1) * qn) \div qd
                 frac == Rat(((n - 1) * qn) % qd, qd)
             IN  IF lo + 1 >= n THEN v[lo + 1]
                 ELSE RatAdd(v[lo + 1], RatMul(frac, RatSub(v[lo + 2], v[lo + 1])))

\* the column of one field of a table
Column(t, f) == [i \in 1 .. Len(t) |-> t[i][f]]

\* lines 21-22: parsing raises when a cell of either date column is no date
DatesParse(t) ==
    \A i \in 1 .. Len(t) :
        /\ ToDatetime(t[i].Order_Date).k # "err"
        /\ ToDatetime(t[i].Ship_Date).k # "err"

\* lines 32-33 with non-numeric text coerced instead of raising
NumbersCoerced(t) == TRUE

\* lines 32-33: a column holding non-numeric text is loaded as text, and the
\* arithmetic on it raises
NumbersParse(t) ==
    \A i \in 1 .. Len(t) :
        t[i].Sales.k # "bad" /\ t[i].Profit.k # "bad" /\ t[i].Quantity.k # "bad"

\* .dt.year and friends yield a float column as soon as one date is NaT;
\* astype(str) then renders 2024 as "2024.0" and NaN as "nan"
YearIsFloat(t) == \E i \in 1 .. Len(t) : TsIsNull(ToDatetime(t[i].Order_Date))

\* line 32
ProfitMargin(sales, profit) ==
    IF RatNe(sales, Zero)
    THEN Round2(RatMul(RatDiv(profit, sales), Int2Rat(100)))
    ELSE Zero

\* line 33
RevenuePerUnit(sales, quantity) == Round2(RatDiv(sales, quantity))

\* line 31
ShipDuration(od, sd) ==
    IF TsIsNull(od) \/ TsIsNull(sd) THEN NaN ELSE Int2Rat(sd.ord - od.ord)

\* lines 21-33 on one row: the frame row with the two dates parsed and the
\* nine derived columns added (the raw columns are kept, the derived ones are
\* overwritten when the input already has them)
DeriveRow(r, floatYear) ==
    LET od == ToDatetime(r.Order_Date)
        sd == ToDatetime(r.Ship_Date)
        nat == TsIsNull(od)
        year == IF nat THEN NaN ELSE Int2Rat(OrdYear(od.ord))
        month == IF nat THEN NaN ELSE Int2Rat(OrdMonth(od.ord))
        quarter == IF nat THEN NaN ELSE Int2Rat((OrdMonth(od.ord) - 1) \div 3 + 1)
    IN  [Order_ID |-> r.Order_ID,
         Order_Date |-> od,
         Ship_Date |-> sd,
         Sales |-> r.Sales,
         Quantity |-> r.Quantity,
         Profit |-> r.Profit,
         Year |-> year,
         Month |-> month,
         Quarter |-> quarter,
         Year_Quarter |-> [year |-> year, quarter |-> quarter, float |-> floatYear],
         Month_Name |-> IF nat THEN NoText ELSE MonthNames[OrdMonth(od.ord)],
         Day_of_Week |-> IF nat THEN NoText ELSE DayNames[((od.ord + 6) % 7) + 1],
         Ship_Duration_Days |-> ShipDuration(od, sd),
         Profit_Margin |-> ProfitMargin(r.Sales, r.Profit),
         Revenue_Per_Unit |-> RevenuePerUnit(r.Sales, r.Quantity)]

Derive(t) == [i \in 1 .. Len(t) |-> DeriveRow(t[i], YearIsFloat(t))]

\* line 37
ProfitFloor(df) == Quantile(Column(df, "Profit"), 1, 1000)

\* line 38 with the right tail winsorized as well
ClipProfitBothTails(df) ==
    LET floor == ProfitFloor(df)
        ceiling == Quantile(Column(df, "Profit"), 999, 1000)
    IN  [i \in 1 .. Len(df) |->
            IF RatLess(df[i].Profit, floor)
            THEN [df[i] EXCEPT !.Profit = floor]
            ELSE IF RatLess(ceiling, df[i].Profit)
            THEN [df[i] EXCEPT !.Profit = ceiling] ELSE df[i]]

\* line 38
ClipProfit(df) ==
    LET floor == ProfitFloor(df)
    IN  [i \in 1 .. Len(df) |->
            IF RatLess(df[i].Profit, floor)
            THEN [df[i] EXCEPT !.Profit = floor] ELSE df[i]]

\* line 41 left out
NoClampShipDuration(df) == df

\* line 41
ClampShipDuration(df) ==
    [i \in 1 .. Len(df) |->
        IF RatLess(df[i].Ship_Duration_Days, Zero)
        THEN [df[i] EXCEPT !.Ship_Duration_Days = Zero] ELSE df[i]]

\* line 44 looking at the raw columns only
RowHasNullRawOnly(r) ==
    \/ IdIsNull(r.Order_ID)
    \/ TsIsNull(r.Order_Date) \/ TsIsNull(r.Ship_Date)
    \/ NumIsNull(r.Sales) \/ NumIsNull(r.Quantity) \/ NumIsNull(r.Profit)

\* line 44: isnull() over the 15 columns of one frame row (Year_Quarter is
\* text built by concatenation and is never null)
RowHasNull(r) ==
    \/ IdIsNull(r.Order_ID)
    \/ TsIsNull(r.Order_Date) \/ TsIsNull(r.Ship_Date)
    \/ NumIsNull(r.Sales) \/ NumIsNull(r.Quantity) \/ NumIsNull(r.Profit)
    \/ NumIsNull(r.Year) \/ NumIsNull(r.Month) \/ NumIsNull(r.Quarter)
    \/ TextIsNull(r.Month_Name) \/ TextIsNull(r.Day_of_Week)
    \/ NumIsNull(r.Ship_Duration_Days) \/ NumIsNull(r.Profit_Margin)
    \/ NumIsNull(r.Revenue_Per_Unit)

\* line 47: dropna()
RECURSIVE DropNa(_)
DropNa(df) ==
    IF df = <<>> THEN <<>>
    ELSE IF RowHasNull(Head(df)) THEN DropNa(Tail(df))
    ELSE <<Head(df)>> \o DropNa(Tail(df))

\* lines 44-50
DropMissing(df) ==
    IF \E i \in 1 .. Len(df) : RowHasNull(df[i]) THEN DropNa(df) ELSE df

\* line 54: to_csv renders the two timestamp columns as YYYY-MM-DD
ToCsvRow(r) ==
    [r EXCEPT !.Order_Date = FormatDate(r.Order_Date.ord),
              !.Ship_Date = FormatDate(r.Ship_Date.ord)]
ToCsv(df) == [i \in 1 .. Len(df) |-> ToCsvRow(df[i])]

\* lines 21-54 when nothing raises
CleanedTable(t) == ToCsv(DropMissing(ClampShipDuration(ClipProfit(Derive(t)))))

\* The outcomes of main() on the table t.  A header-only input is loaded as
\* untyped columns, on which round() and quantile() raise or not depending
\* on the library version: both outcomes are possible.
CleanerOutcomes(t) ==
    IF ~DatesParse(t) \/ ~NumbersParse(t) THEN {"error"}
    ELSE IF Len(t) = 0 THEN {"error", "ok"}
    ELSE {"ok"}

-----------------------------------------------------------------------------
(* Files *)

File(rows) == [exists |-> TRUE, rows |-> rows]
NoFile == [exists |-> FALSE, rows |-> <<>>]

-----------------------------------------------------------------------------
(* Cleaner runs *)

\* the table sample the cleaner is run on
Cents(c) == Rat(c, 100)

BaseRow ==
    [Order_ID |-> OrderId(2024, 1),
     Order_Date |-> DateCell(2024, 2, 29),
     Ship_Date |-> DateCell(2024, 3, 3),
     Sales |-> Cents(20000),
     Quantity |-> Int2Rat(3),
     Profit |-> Cents(3000)]

RegularRows ==
    {BaseRow,
     [BaseRow EXCEPT !.Profit = Cents(-5000)],
     [BaseRow EXCEPT !.Ship_Date = DateCell(2024, 2, 27),
                     !.Sales = Cents(160000), !.Profit = Cents(2000)]}

EdgeRows ==
    {[BaseRow EXCEPT !.Sales = Zero],
     [BaseRow EXCEPT !.Quantity = Zero],
     [BaseRow EXCEPT !.Quantity = Zero, !.Sales = Zero]}

MissingRows ==
    {[BaseRow EXCEPT !.Order_ID = NoId],
     [BaseRow EXCEPT !.Order_Date = NoDate],
     [BaseRow EXCEPT !.Profit = NaN]}

MalformedRows ==
    {[BaseRow EXCEPT !.Order_Date = DateCell(2023, 2, 29)],
     [BaseRow EXCEPT !.Ship_Date = BadDate],
     [BaseRow EXCEPT !.Sales = BadNum],
     [BaseRow EXCEPT !.Profit = BadNum]}

SampleRows == RegularRows \cup EdgeRows \cup MissingRows \cup MalformedRows

Tables(rows, maxLen) == UNION {[1 .. n -> rows] : n \in 0 .. maxLen}

\* data_cleaning.py main with line 53 naming the input path: the cleaned table
\* is saved over data/sales_data.csv
CleanerMainSavesOverInput ==
    /\ cleanerRuns < MaxCleanerRuns
    /\ \E outcome \in (IF rawFile.exists THEN CleanerOutcomes(rawFile.rows)
                       ELSE {"error"}) :
        /\ cleanerExit' = outcome
        /\ rawFile' = IF outcome = "ok" THEN File(CleanedTable(rawFile.rows))
                      ELSE rawFile
    /\ cleanerInput' = rawFile
    /\ cleanerRuns' = cleanerRuns + 1
    /\ UNCHANGED <<cleanedFile, summary, genVars>>

\* main(), lines 11-64: load, derive, clip, clamp, drop, export.  Every
\* failure is raised before line 54, the only write.
CleanerMain ==
    /\ cleanerRuns < MaxCleanerRuns
    /\ \E outcome \in (IF rawFile.exists THEN CleanerOutcomes(rawFile.rows)
                       ELSE {"error"}) :
        /\ cleanerExit' = outcome
        /\ cleanedFile' = IF outcome = "ok"
                          THEN File(CleanedTable(rawFile.rows))
                          ELSE cleanedFile
    /\ cleanerInput' = rawFile
    /\ cleanerRuns' = cleanerRuns + 1
    /\ UNCHANGED <<rawFile, summary, genVars>>

\* a table with the raw columns only
IsRawTable(t) == \A i \in 1 .. Len(t) : DOMAIN t[i] = RawColumns

\* the operator feeds the cleaner its own output, once: the cleaned file just
\* written from the raw input is copied over the raw file before the next run
ReuseOutputAsInput ==
    /\ cleanerExit = "ok"
    /\ cleanedFile.exists
    /\ cleanerInput = rawFile
    /\ IsRawTable(rawFile.rows)
    /\ rawFile # cleanedFile
    /\ rawFile' = cleanedFile
    /\ UNCHANGED <<cleanedFile, cleanerVars, summary, genVars>>

NoSummary == [computed |-> FALSE]

CleanerIdle == cleanerExit = "none" /\ cleanerRuns = 0 /\ cleanerInput = NoFile

\* generate_order_date has not been called
NoCall == [called |-> FALSE]

GeneratorIdle ==
    /\ genPc = "idle" /\ records = <<>>
    /\ randomStream = <<>> /\ randomPos = 0
    /\ npStream = <<>> /\ npPos = 0
    /\ genRuns = 0 /\ prevRawFile = NoFile /\ resampled = {}
    /\ orderDateCall = NoCall

\* the raw file holds any sample table; the cleaned file is the one an earlier
\* run left behind
CleanerInit ==
    /\ rawFile \in {File(t) : t \in Tables(SampleRows, MaxRows)}
    /\ cleanedFile = File(CleanedTable(<<BaseRow>>))
    /\ CleanerIdle
    /\ summary = NoSummary
    /\ GeneratorIdle

CleanerNext == CleanerMain \/ ReuseOutputAsInput

SpecCleaner == CleanerInit /\ [][CleanerNext]_vars

-----------------------------------------------------------------------------
(* Cleaner properties *)

InRows == cleanerInput.rows
OutRows == cleanedFile.rows

\* a <= b on finite values
RatLeq(a, b) == ~RatLess(b, a)

\* a missing value in a row of the written file
OutRowHasMissing(r) ==
    \/ r.Order_ID.k = "nan" \/ r.Order_Date.k = "nan" \/ r.Ship_Date.k = "nan"
    \/ \E c \in {"Sales", "Quantity", "Profit", "Year", "Month", "Quarter",
                 "Ship_Duration_Days", "Profit_Margin", "Revenue_Per_Unit"} :
            r[c].k = "nan"
    \/ r.Month_Name = "" \/ r.Day_of_Week = ""

\* an input row with no missing value in any column once the derived columns
\* are computed: no empty raw cell, and Sales/Quantity is not 0/0
InputRowComplete(r) ==
    /\ r.Order_ID.k # "nan" /\ r.Order_Date.k # "nan" /\ r.Ship_Date.k # "nan"
    /\ r.Sales.k # "nan" /\ r.Quantity.k # "nan" /\ r.Profit.k # "nan"
    /\ ~(r.Sales = Zero /\ r.Quantity = Zero)

KeptInput == SelectSeq(InRows, InputRowComplete)

SameRawRow(in, out) ==
    /\ out.Order_ID = in.Order_ID
    /\ out.Order_Date = in.Order_Date
    /\ out.Ship_Date = in.Ship_Date
    /\ out.Sales = in.Sales
    /\ out.Quantity = in.Quantity

\* the 0.1% quantile of the input Profit values, for at most 1000 of them:
\* the least value plus (n-1)/1000 of the gap to the next one
InputProfitIdx == {i \in 1 .. Len(InRows) : InRows[i].Profit.k = "num"}
LeastIdx(S) == CHOOSE i \in S : \A j \in S : RatLeq(InRows[i].Profit, InRows[j].Profit)
InputProfitQuantile ==
    LET n == Cardinality(InputProfitIdx)
        i0 == LeastIdx(InputProfitIdx)
        v0 == InRows[i0].Profit
    IN  IF n = 1 THEN v0
        ELSE LET v1 == InRows[LeastIdx(InputProfitIdx \ {i0})].Profit
             IN  RatAdd(v0, RatMul(Rat(n - 1, 1000), RatSub(v1, v0)))

\* C1: in every row of the cleaned file, Profit_Margin is
\* round(Profit/Sales*100, 2) of that row's own Profit and Sales when Sales is
\* not 0, and 0 when Sales is 0.
C1_ProfitMarginOfOutputRow ==
    cleanerExit = "ok" =>
        \A i \in 1 .. Len(OutRows) :
            OutRows[i].Profit_Margin =
                IF OutRows[i].Sales # Zero
                THEN Round2(RatMul(RatDiv(OutRows[i].Profit, OutRows[i].Sales),
                                   Int2Rat(100)))
                ELSE Zero

\* C2: a cleaner run whose input is its own cleaned output leaves the cleaned
\* file as it was: no row dropped, no column of any row changed.
C2_SecondRunIdempotent ==
    [][(cleanerRuns' = cleanerRuns + 1 /\ cleanerExit = "ok" /\ rawFile = cleanedFile)
        => cleanedFile' = cleanedFile]_vars

\* C4: in every row of the cleaned file, Ship_Duration_Days is the number of
\* days from Order_Date to Ship_Date when that is not negative, and 0 when the
\* ship date is before the order date.
C4_ShipDurationClamped ==
    cleanerExit = "ok" =>
        \A i \in 1 .. Len(OutRows) :
            LET days == ToDatetime(OutRows[i].Ship_Date).ord
                        - ToDatetime(OutRows[i].Order_Date).ord
            IN  /\ RatLeq(Zero, OutRows[i].Ship_Duration_Days)
                /\ OutRows[i].Ship_Duration_Days =
                       Int2Rat(IF days >= 0 THEN days ELSE 0)

C4_Witness ==
    /\ cleanerExit = "ok"
    /\ \E i \in 1 .. Len(OutRows) :
        /\ ToDatetime(OutRows[i].Ship_Date).ord < ToDatetime(OutRows[i].Order_Date).ord
        /\ OutRows[i].Ship_Duration_Days = Zero
    /\ \E i \in 1 .. Len(OutRows) :
        /\ ToDatetime(OutRows[i].Ship_Date).ord > ToDatetime(OutRows[i].Order_Date).ord
        /\ RatLess(Zero, OutRows[i].Ship_Duration_Days)

\* C5: the cleaned file has no missing value in any column, and its rows are
\* exactly the input rows that have no missing value in any column after
\* derivation, in input order; so it has at most as many rows as the input,
\* and as many when the input has no missing value.
C5_OutputIsCompleteInputRows ==
    cleanerExit = "ok" =>
        /\ \A i \in 1 .. Len(OutRows) : ~OutRowHasMissing(OutRows[i])
        /\ Len(OutRows) = Len(KeptInput)
        /\ \A j \in 1 .. Len(KeptInput) : SameRawRow(KeptInput[j], OutRows[j])
        /\ Len(OutRows) <= Len(InRows)
        /\ (\A i \in 1 .. Len(InRows) : InputRowComplete(InRows[i]))
               => Len(OutRows) = Len(InRows)

C5_Witness ==
    /\ cleanerExit = "ok"
    /\ \E i \in 1 .. Len(InRows) : InRows[i].Order_ID.k = "nan"
    /\ \E i \in 1 .. Len(InRows) : InRows[i].Sales = Zero /\ InRows[i].Quantity = Zero
    /\ Len(OutRows) = 1
    /\ Len(InRows) = 3

\* malformed input: a date cell that is no calendar date, or non-numeric text
\* in Sales or Profit
UnparseableDate(c) ==
    \/ c.k = "bad"
    \/ c.k = "date" /\ ~(c.m \in 1 .. 12 /\ c.d \in 1 .. DaysInMonth(c.y, c.m))
Malformed(t) ==
    \E i \in 1 .. Len(t) :
        \/ UnparseableDate(t[i].Order_Date) \/ UnparseableDate(t[i].Ship_Date)
        \/ t[i].Sales.k = "bad" \/ t[i].Profit.k = "bad"

\* C6: a cleaner run on malformed input ends in an error and leaves the
\* cleaned file exactly as it was.
C6_MalformedInputIsFatal ==
    [][(cleanerRuns' = cleanerRuns + 1 /\ rawFile.exists /\ Malformed(rawFile.rows))
        => (cleanerExit' = "error" /\ cleanedFile' = cleanedFile)]_vars

C6_Witness ==
    /\ cleanerExit = "error"
    /\ cleanerRuns = 1
    /\ Malformed(InRows)
    /\ \E i \in 1 .. Len(InRows) : InRows[i].Sales.k = "bad"
    /\ cleanedFile = File(CleanedTable(<<BaseRow>>))

\* C10: after cleaning, every Profit is at least the 0.1% quantile of the
\* input Profit values; a row whose input Profit was below the quantile has
\* Profit equal to it, and a row whose input Profit was at or above it keeps
\* its Profit.
C10_ProfitClippedLeftTailOnly ==
    (cleanerExit = "ok" /\ Len(OutRows) > 0) =>
        /\ Len(OutRows) = Len(KeptInput)
        /\ \A j \in 1 .. Len(OutRows) :
            /\ RatLeq(InputProfitQuantile, OutRows[j].Profit)
            /\ RatLess(KeptInput[j].Profit, InputProfitQuantile)
                   => OutRows[j].Profit = InputProfitQuantile
            /\ RatLeq(InputProfitQuantile, KeptInput[j].Profit)
                   => OutRows[j].Profit = KeptInput[j].Profit

C10_Witness ==
    /\ cleanerExit = "ok"
    /\ Len(OutRows) = 3
    /\ \E j \in 1 .. Len(OutRows) :
        /\ RatLess(KeptInput[j].Profit, InputProfitQuantile)
        /\ OutRows[j].Profit = InputProfitQuantile
    /\ \E j \in 1 .. Len(OutRows) :
        /\ RatLess(InputProfitQuantile, KeptInput[j].Profit)
        /\ OutRows[j].Profit = KeptInput[j].Profit

-----------------------------------------------------------------------------
(* Reporter: scripts/exploratory_analysis.py *)

RECURSIVE SumSeq(_)
SumSeq(col) == IF col = <<>> THEN Zero ELSE RatAdd(Head(col), SumSeq(Tail(col)))

RECURSIVE SumOver(_, _)
SumOver(f, S) ==
    IF S = {} THEN Zero
    ELSE LET x == CHOOSE y \in S : TRUE
         IN  RatAdd(f[x], SumOver(f, S \ {x}))

\* the non-missing values of Order_ID: nunique() and groupby() both skip NaN
OrderIds(df) == {df[i].Order_ID : i \in {j \in 1 .. Len(df) : ~IdIsNull(df[j].Order_ID)}}

RowsOf(df, id) == SelectSeq(df, LAMBDA r : r.Order_ID = id)

\* groupby("Order_ID")["Sales"].mean()
PerOrderMeanSales(df) ==
    [id \in OrderIds(df) |->
        RatDiv(SumSeq(Column(RowsOf(df, id), "Sales")), Int2Rat(Len(RowsOf(df, id))))]

\* line 57: groupby("Order_ID")["Sales"].sum()
PerOrderSales(df) ==
    [id \in OrderIds(df) |-> SumSeq(Column(RowsOf(df, id), "Sales"))]

\* Series.mean(): NaN for no values
MeanOver(f) ==
    IF DOMAIN f = {} THEN NaN
    ELSE RatDiv(SumOver(f, DOMAIN f), Int2Rat(Cardinality(DOMAIN f)))

\* print_summary, lines 54-57
Summary(df) ==
    [computed |-> TRUE,
     total_sales |-> SumSeq(Column(df, "Sales")),
     total_profit |-> SumSeq(Column(df, "Profit")),
     total_orders |-> Cardinality(OrderIds(df)),
     avg_order |-> MeanOver(PerOrderSales(df))]

\* main(), lines 250-263: load the cleaned file and print the summary (the
\* charts are written under outputs/ and touch neither CSV file)
ReporterMain ==
    /\ cleanedFile.exists
    /\ summary' = Summary(cleanedFile.rows)
    /\ UNCHANGED <<fileVars, cleanerVars, genVars>>

\* the order lines the reporter is run on: two orders, three amounts
ReporterRows ==
    {[BaseRow EXCEPT !.Order_ID = OrderId(2024, n), !.Sales = s] :
        n \in 1 .. 2, s \in {Cents(10000), Cents(25000), Cents(1999)}}

\* the cleaned file is what the cleaner wrote for some table of order lines
ReporterInit ==
    /\ rawFile \in {File(t) : t \in Tables(ReporterRows, MaxRows)}
    /\ cleanedFile = File(CleanedTable(rawFile.rows))
    /\ cleanerExit = "ok" /\ cleanerRuns = 1 /\ cleanerInput = rawFile
    /\ summary = NoSummary
    /\ GeneratorIdle

ReporterNext == ReporterMain

SpecReporter == ReporterInit /\ [][ReporterNext]_vars

\* total revenue / distinct orders, as the summary's own figures give it
TotalPerOrder == RatDiv(summary.total_sales, Int2Rat(summary.total_orders))

SomeOrderHasSeveralLines ==
    \E i, j \in 1 .. Len(cleanedFile.rows) :
        i # j /\ cleanedFile.rows[i].Order_ID = cleanedFile.rows[j].Order_ID

\* C3 as stated: the average order value equals total revenue / distinct
\* orders only when every order has exactly one line, and differs from it
\* when some order has more than one line.
C3_AvgDiffersForMultiLineOrders ==
    (summary.computed /\ summary.total_orders > 0) =>
        (summary.avg_order = TotalPerOrder <=> ~SomeOrderHasSeveralLines)

\* C3 amended: the average order value (mean of the per-order sums of Sales)
\* equals total revenue / distinct orders for every cleaned table with at
\* least one order, whether or not an order has more than one line.
C3_AvgIsTotalPerOrder ==
    (summary.computed /\ summary.total_orders > 0) =>
        summary.avg_order = TotalPerOrder

C3_Witness ==
    /\ summary.computed
    /\ summary.total_orders = 2
    /\ Len(cleanedFile.rows) = 3
    /\ SomeOrderHasSeveralLines
    /\ summary.avg_order = TotalPerOrder

-----------------------------------------------------------------------------
(* Generator: scripts/generate_dataset.py *)

\* lines 20-21
DATE_START == Ymd2Ord(2023, 1, 1)
DATE_END == Ymd2Ord(2025, 12, 31)

\* line 93: the boost threshold 0.15, in hundredths, and the Q4 months
BoostPercent == 15
Q4Months == {10, 11, 12}

\* line 121: the ship delays
ShipDelays == 1 .. 7

\* the draws the model samples: day offsets out of 0 .. (DATE_END - DATE_START)
\* (2023-01-31 and 2025-12-31), values of random.random() in hundredths on
\* either side of the threshold, the shortest, a middle and the longest ship
\* delay, and one draw of the financial fields
DayOffsets == {30, DATE_END - DATE_START}
ShipDelaySample == {d \in ShipDelays : d \in {1, 4, 7}}
UniformPercents == {5, 50}
FinancialDraws ==
    <<[base_price |-> Int2Rat(999), variation |-> Int2Rat(1), quantity |-> 2,
       discount |-> Rat(10, 100), margin |-> Rat(20, 100)]>>

\* A seeded generator is a fixed sequence of outputs.  The sequence is not
\* known in advance: an output is chosen when it is first consumed and is the
\* same whenever that position is consumed again after a reseed.
Consumes(stream, pos, v) == pos < Len(stream) => stream[pos + 1] = v
Extend(stream, pos, v) == IF pos < Len(stream) THEN stream ELSE Append(stream, v)

\* line 15 left out: the process goes on from whatever state it inherits
SeedNumpyOmitted(pos) == pos

\* line 15: np.random.seed(42) at import puts the stream at its start
SeedNumpy(pos) == 0

\* line 16: random.seed(42) at import puts the stream at its start
SeedRandom(pos) == 0

\* lines 93: is the date moved into Q4?
Boosted(date, u) == u < BoostPercent /\ OrdMonth(date) \notin Q4Months

\* line 99: date.replace(month=..., day=...) keeps the year; it raises
\* ValueError for a day the month does not have.  No date has ordinal 0.
ValueError == 0
DateReplace(date, month, day) ==
    IF day \in 1 .. DaysInMonth(OrdYear(date), month)
    THEN Ymd2Ord(OrdYear(date), month, day)
    ELSE ValueError

\* lines 91-100 with line 98 left out: the day is passed on as drawn
GenerateOrderDateNoClamp(offset, u, newMonth) ==
    LET date == DATE_START + offset
    IN  IF Boosted(date, u)
        THEN DateReplace(date, newMonth, OrdDay(date))
        ELSE date

\* generate_order_date, lines 91-100, on the drawn offset, uniform value and
\* month
GenerateOrderDate(offset, u, newMonth) ==
    LET date == DATE_START + offset
    IN  IF Boosted(date, u)
        THEN LET maxDay == DaysInMonth(OrdYear(date), newMonth)
                 day == IF OrdDay(date) < maxDay THEN OrdDay(date) ELSE maxDay
             IN  DateReplace(date, newMonth, day)
        ELSE date

\* a finished call of generate_order_date: what it drew and what it returned
Call(offset, u, newMonth) ==
    [called |-> TRUE, date |-> DATE_START + offset, u |-> u, newMonth |-> newMonth,
     ret |-> GenerateOrderDate(offset, u, newMonth)]

\* line 122 with the delay subtracted
ShipDateBefore(orderDate, shipDays) == orderDate - shipDays

\* line 122
ShipDate(orderDate, shipDays) == orderDate + shipDays

\* lines 132-133
SalesOf(f) ==
    Round2(RatMul(RatMul(RatMul(f.base_price, f.variation), Int2Rat(f.quantity)),
                  RatSub(Int2Rat(1), f.discount)))

\* lines 137-140
ProfitOf(f) ==
    Round2(RatMul(SalesOf(f), RatSub(f.margin, RatMul(f.discount, Rat(1, 2)))))

\* lines 147-164 with the identifier's year taken from the ship date
RecordWithShipYear(orderId, orderDate, shipDate, f) ==
    [Order_ID |-> OrderId(OrdYear(shipDate), orderId),
     Order_Date |-> FormatDate(orderDate),
     Ship_Date |-> FormatDate(shipDate),
     Sales |-> SalesOf(f),
     Quantity |-> Int2Rat(f.quantity),
     Profit |-> ProfitOf(f)]

\* lines 147-164: the record generate_record returns, dates already formatted
Record(orderId, orderDate, shipDate, f) ==
    [Order_ID |-> OrderId(OrdYear(orderDate), orderId),
     Order_Date |-> FormatDate(orderDate),
     Ship_Date |-> FormatDate(shipDate),
     Sales |-> SalesOf(f),
     Quantity |-> Int2Rat(f.quantity),
     Profit |-> ProfitOf(f)]

\* line 173: sort_values("Order_Date") orders the YYYY-MM-DD texts; for a frame
\* this small the sort is an insertion sort, which keeps ties in list order
DateTextLess(a, b) ==
    \/ a.y < b.y
    \/ a.y = b.y /\ a.m < b.m
    \/ a.y = b.y /\ a.m = b.m /\ a.d < b.d

RECURSIVE InsertByOrderDate(_, _)
InsertByOrderDate(s, r) ==
    IF s = <<>> THEN <<r>>
    ELSE IF DateTextLess(r.Order_Date, Head(s).Order_Date) THEN <<r>> \o s
    ELSE <<Head(s)>> \o InsertByOrderDate(Tail(s), r)

RECURSIVE SortByOrderDate(_)
SortByOrderDate(recs) ==
    IF recs = <<>> THEN <<>>
    ELSE InsertByOrderDate(SortByOrderDate(SubSeq(recs, 1, Len(recs) - 1)),
                           recs[Len(recs)])

\* a generator process starts: the module is imported (lines 13-16 seed the
\* generators) and main() begins with an empty list
GeneratorStart ==
    /\ genPc = "idle"
    /\ genRuns < MaxGenRuns
    /\ genPc' = "generating"
    /\ records' = <<>>
    /\ resampled' = {}
    /\ orderDateCall' = NoCall
    /\ randomPos' = SeedRandom(randomPos)
    /\ npPos' = SeedNumpy(npPos)
    /\ UNCHANGED <<fileVars, cleanerVars, summary, randomStream, npStream, genRuns,
                   prevRawFile>>

\* one generate_record(i + 1) of line 169.  Of the draws it makes, the model
\* follows those of the dates (lines 91-94 from `random`, line 121 from
\* np.random) and one draw standing for lines 125-137.
GenerateRecord ==
    /\ genPc = "generating"
    /\ Len(records) < MaxRecords
    /\ \E offset \in DayOffsets :
        /\ Consumes(randomStream, randomPos, offset)
        /\ \E u \in UniformPercents :
            /\ Consumes(randomStream, randomPos + 1, u)
            /\ LET boost == Boosted(DATE_START + offset, u)
               IN  \E newMonth \in (IF boost THEN Q4Months ELSE {0}) :
                    /\ boost => Consumes(randomStream, randomPos + 2, newMonth)
                    /\ \E shipDays \in ShipDelaySample :
                        /\ Consumes(npStream, npPos, shipDays)
                        /\ \E fin \in 1 .. Len(FinancialDraws) :
                            /\ Consumes(npStream, npPos + 1, fin)
                            /\ LET orderId == Len(records) + 1
                                   orderDate == GenerateOrderDate(offset, u, newMonth)
                                   shipDate == ShipDate(orderDate, shipDays)
                                   s1 == Extend(randomStream, randomPos, offset)
                                   s2 == Extend(s1, randomPos + 1, u)
                                   n1 == Extend(npStream, npPos, shipDays)
                               IN  /\ randomStream' =
                                          IF boost THEN Extend(s2, randomPos + 2, newMonth)
                                          ELSE s2
                                   /\ randomPos' = randomPos + (IF boost THEN 3 ELSE 2)
                                   /\ npStream' = Extend(n1, npPos + 1, fin)
                                   /\ npPos' = npPos + 2
                                   /\ records' =
                                          Append(records,
                                                 Record(orderId, orderDate, shipDate,
                                                        FinancialDraws[fin]))
                                   /\ resampled' = IF boost THEN resampled \cup {orderId}
                                                   ELSE resampled
                                   /\ orderDateCall' = Call(offset, u, newMonth)
    /\ UNCHANGED <<fileVars, cleanerVars, summary, genPc, genRuns, prevRawFile>>

\* lines 170-179: sort by order date and write data/sales_data.csv
GeneratorWrite ==
    /\ genPc = "generating"
    /\ Len(records) = MaxRecords
    /\ rawFile' = File(SortByOrderDate(records))
    /\ prevRawFile' = rawFile
    /\ genRuns' = genRuns + 1
    /\ genPc' = "idle"
    /\ UNCHANGED <<cleanedFile, cleanerVars, summary, records, randomStream,
                   randomPos, npStream, npPos, resampled, orderDateCall>>

GeneratorInit ==
    /\ rawFile = NoFile
    /\ cleanedFile = NoFile
    /\ CleanerIdle
    /\ summary = NoSummary
    /\ GeneratorIdle

GeneratorNext == GeneratorStart \/ GenerateRecord \/ GeneratorWrite

SpecGenerator == GeneratorInit /\ [][GeneratorNext]_vars

-----------------------------------------------------------------------------
(* Generator properties *)

RawRows == rawFile.rows
Written == genPc = "idle" /\ genRuns >= 1

OrderOrd(r) == ToDatetime(r.Order_Date).ord
ShipOrd(r) == ToDatetime(r.Ship_Date).ord

\* C7: two runs of the generator under the same seed write the same file: the
\* same records, with the same field values, in the same order.
C7_SameSeedSameOutput ==
    (genPc = "idle" /\ genRuns >= 2) => rawFile = prevRawFile

C7_Witness ==
    /\ genPc = "idle" /\ genRuns = 2
    /\ rawFile = prevRawFile
    /\ Len(RawRows) = MaxRecords
    /\ RawRows[1].Order_Date # RawRows[2].Order_Date
    /\ ShipOrd(RawRows[1]) - OrderOrd(RawRows[1])
           # ShipOrd(RawRows[2]) - OrderOrd(RawRows[2])

\* C8: in the file one generator run writes, the Order_IDs are pairwise
\* distinct and the year in each Order_ID is the year of the row's Order_Date,
\* also for rows whose date was moved into Q4.
C8_OrderIdUniqueAndYearConsistent ==
    Written =>
        /\ \A i, j \in 1 .. Len(RawRows) :
               i # j => RawRows[i].Order_ID # RawRows[j].Order_ID
        /\ \A i \in 1 .. Len(RawRows) :
               /\ RawRows[i].Order_ID.k = "id"
               /\ RawRows[i].Order_ID.year = OrdYear(OrderOrd(RawRows[i]))

C8_Witness ==
    /\ Written
    /\ Len(RawRows) = MaxRecords
    /\ \E i, j \in 1 .. Len(RawRows) :
        /\ RawRows[i].Order_ID.seq \in resampled
        /\ RawRows[i].Order_Date.m \in Q4Months
        /\ RawRows[i].Order_ID.year = 2023
        /\ RawRows[j].Order_ID.year = 2025

\* C9: in every row the generator writes, Ship_Date is Order_Date plus a
\* delay of 1 to 7 days, so Ship_Date >= Order_Date.
C9_ShipDateAfterOrderDate ==
    Written =>
        \A i \in 1 .. Len(RawRows) :
            /\ ShipOrd(RawRows[i]) >= OrderOrd(RawRows[i])
            /\ ShipOrd(RawRows[i]) - OrderOrd(RawRows[i]) \in 1 .. 7

C9_Witness ==
    /\ Written
    /\ \E i, j \in 1 .. Len(RawRows) :
        /\ RawRows[i].Order_Date = DateCell(2025, 12, 31)
        /\ RawRows[i].Ship_Date = DateCell(2026, 1, 7)
        /\ RawRows[j].Order_ID.seq \in resampled
        /\ RawRows[j].Order_Date = DateCell(2023, 11, 30)
        /\ RawRows[j].Ship_Date = DateCell(2023, 12, 1)

-----------------------------------------------------------------------------
(* The three stages on one working directory *)

\* The stages are separate batch processes run one at a time; a stage starts
\* only when no generator process is under way.
NoStageRunning == genPc = "idle"

\* python scripts/generate_dataset.py, from its start
RunGeneratorStart == NoStageRunning /\ GeneratorStart

\* python scripts/data_cleaning.py
RunCleaner == NoStageRunning /\ CleanerMain

\* python scripts/exploratory_analysis.py
RunReporter == NoStageRunning /\ ReporterMain

\* Outputs of the seeded `random` module for n records, as generate_order_date
\* consumes them: a January date moved into November alternating with the last
\* day of the window left in place, starting with either.
RECURSIVE RandomOutputs(_, _)
RandomOutputs(n, first) ==
    IF n = 0 THEN <<>>
    ELSE RandomOutputs(n - 1, first)
             \o (IF (n + first) % 2 = 1 THEN <<30, 5, 11>>
                 ELSE <<DATE_END - DATE_START, 50>>)

\* Outputs of seeded np.random for n records: the shortest and the longest
\* ship delay in turn, each followed by the draw of the financial fields.
RECURSIVE NumpyOutputs(_, _)
NumpyOutputs(n, first) ==
    IF n = 0 THEN <<>>
    ELSE NumpyOutputs(n - 1, first)
             \o (IF (n + first) % 2 = 1 THEN <<1, 1>> ELSE <<7, 1>>)

\* a fresh checkout: neither CSV file exists and no stage has run; what the
\* seeded generators will put out is fixed by the installed libraries
PipelineInit ==
    /\ rawFile = NoFile
    /\ cleanedFile = NoFile
    /\ CleanerIdle
    /\ summary = NoSummary
    /\ genPc = "idle" /\ records = <<>>
    /\ randomStream \in {RandomOutputs(MaxRecords, first) : first \in {0, 1}}
    /\ npStream \in {NumpyOutputs(MaxRecords, first) : first \in {0, 1}}
    /\ randomPos = 0 /\ npPos = 0
    /\ genRuns = 0 /\ prevRawFile = NoFile /\ resampled = {}
    /\ orderDateCall = NoCall

PipelineNext ==
    \/ RunGeneratorStart
    \/ GenerateRecord
    \/ GeneratorWrite
    \/ RunCleaner
    \/ RunReporter

SpecPipeline == PipelineInit /\ [][PipelineNext]_vars

\* which stage a step belongs to, read off the stage's own bookkeeping
GeneratorStep == genVars' # genVars
CleanerStep == cleanerRuns' = cleanerRuns + 1
ReporterStep == genVars' = genVars /\ cleanerVars' = cleanerVars

\* C11: in any sequence of stage runs, data/sales_data.csv changes only in the
\* generator's write; a cleaner run leaves it unchanged and writes nothing but
\* data/sales_data_cleaned.csv; a reporter run leaves both CSV files
\* unchanged; the generator leaves the cleaned file unchanged.
C11_RawFileWrittenOnlyByGenerator ==
    [][ /\ rawFile' # rawFile =>
               /\ genPc = "generating" /\ genPc' = "idle"
               /\ rawFile' = File(SortByOrderDate(records))
        /\ CleanerStep => rawFile' = rawFile
        /\ cleanedFile' # cleanedFile =>
               /\ CleanerStep
               /\ cleanerExit' = "ok"
               /\ cleanedFile' = File(CleanedTable(rawFile.rows))
        /\ GeneratorStep => cleanedFile' = cleanedFile
        /\ ReporterStep => fileVars' = fileVars ]_vars

\* all three stages have run at least once and the raw file is still what the
\* generator wrote, the cleaned file what the cleaner made of it
C11_Witness ==
    /\ genPc = "idle" /\ genRuns >= 1
    /\ cleanerExit = "ok"
    /\ summary.computed
    /\ rawFile = File(SortByOrderDate(records))
    /\ Len(rawFile.rows) = MaxRecords
    /\ cleanedFile = File(CleanedTable(rawFile.rows))
    /\ cleanedFile # rawFile

-----------------------------------------------------------------------------
(* generate_order_date on its own *)

\* line 91: every offset random.randint(0, (DATE_END - DATE_START).days) can
\* return, both ends included
AllDayOffsets == 0 .. (DATE_END - DATE_START)

\* line 93: values of random.random() in hundredths, the least, the two
\* around the threshold and the greatest
UniformAroundThreshold == {0, BoostPercent - 1, BoostPercent, 99}

\* the process is about to call generate_order_date; the next three outputs
\* of the seeded `random` module are an offset, a uniform value and a month
OrderDateInit ==
    /\ rawFile = NoFile
    /\ cleanedFile = NoFile
    /\ CleanerIdle
    /\ summary = NoSummary
    /\ genPc = "generating" /\ records = <<>>
    /\ randomStream \in {<<offset, u, newMonth>> :
                            offset \in AllDayOffsets, u \in UniformAroundThreshold,
                            newMonth \in Q4Months}
    /\ randomPos = 0
    /\ npStream = <<>> /\ npPos = 0
    /\ genRuns = 0 /\ prevRawFile = NoFile /\ resampled = {}
    /\ orderDateCall = NoCall

\* one call of generate_order_date, lines 91-100: random.choice is consumed
\* only when the date is moved
GenerateOrderDateCall ==
    /\ ~orderDateCall.called
    /\ randomPos + 3 <= Len(randomStream)
    /\ LET offset == randomStream[randomPos + 1]
           u == randomStream[randomPos + 2]
           boost == Boosted(DATE_START + offset, u)
           newMonth == IF boost THEN randomStream[randomPos + 3] ELSE 0
       IN  /\ orderDateCall' = Call(offset, u, newMonth)
           /\ randomPos' = randomPos + (IF boost THEN 3 ELSE 2)
    /\ UNCHANGED <<fileVars, cleanerVars, summary, genPc, records, randomStream,
                   npStream, npPos, genRuns, prevRawFile, resampled>>

OrderDateNext == GenerateOrderDateCall

SpecOrderDate == OrderDateInit /\ [][OrderDateNext]_vars

\* the calendar fields of a returned value
IsCalendarDate(n) ==
    /\ n # ValueError
    /\ OrdMonth(n) \in 1 .. 12
    /\ OrdDay(n) \in 1 .. DaysInMonth(OrdYear(n), OrdMonth(n))
    /\ Ymd2Ord(OrdYear(n), OrdMonth(n), OrdDay(n)) = n

LeastOf(a, b) == IF a <= b THEN a ELSE b

\* C12: generate_order_date returns a valid calendar date between 2023-01-01
\* and 2025-12-31; when the boost moves a non-Q4 date, the result is in the
\* drawn Q4 month of the same year on day min(drawn day, last day of that
\* month); a date drawn in Q4, and any date when the boost does not fire, is
\* returned as drawn.
C12_OrderDateValidAndInWindow ==
    orderDateCall.called =>
        LET date == orderDateCall.date
            ret == orderDateCall.ret
            moved == orderDateCall.u < BoostPercent /\ OrdMonth(date) \notin {10, 11, 12}
        IN  /\ IsCalendarDate(ret)
            /\ Ymd2Ord(2023, 1, 1) <= ret /\ ret <= Ymd2Ord(2025, 12, 31)
            /\ moved =>
                   /\ orderDateCall.newMonth \in {10, 11, 12}
                   /\ OrdYear(ret) = OrdYear(date)
                   /\ OrdMonth(ret) = orderDateCall.newMonth
                   /\ OrdDay(ret) = LeastOf(OrdDay(date),
                                            DaysInMonth(OrdYear(date),
                                                        orderDateCall.newMonth))
            /\ OrdMonth(date) \in {10, 11, 12} => ret = date
            /\ ~moved => ret = date

\* a 31st of a month outside Q4 has been moved into November and clamped to
\* the 30th
C12_Witness ==
    /\ orderDateCall.called
    /\ orderDateCall.u < BoostPercent
    /\ OrdMonth(orderDateCall.date) \notin {10, 11, 12}
    /\ OrdDay(orderDateCall.date) = 31
    /\ orderDateCall.newMonth = 11
    /\ OrdDay(orderDateCall.ret) = 30
    /\ OrdMonth(orderDateCall.ret) = 11
    /\ OrdYear(orderDateCall.ret) = OrdYear(orderDateCall.date)

=============================================================================
